---- MODULE Spec2Model ----
(***************************************************************************)
(* A model of the js_parse scanner: the token recognizers of               *)
(* src/src/tokens.rs, the regex re-scan of src/src/regex.rs and the        *)
(* Scanner iterator of src/src/lib.rs.                                     *)
(*                                                                         *)
(* A source text is a sequence of characters, each character a one-element *)
(* string ("a", "(", "\n"); the names "BT", "VT", "NEL", "NBSP", "LS",     *)
(* "PS" and "BOM" stand for the single characters U+0060 (the back-tick),  *)
(* U+000B, U+0085, U+00A0, U+2028, U+2029 and U+FEFF.  Offsets count       *)
(* characters; on the ASCII texts the model scans they are the byte        *)
(* offsets of the code.                                                    *)
(*                                                                         *)
(* A character-level recognizer P(s, i) reads s from index i (1-based) and *)
(* returns the index after what it consumed, or 0 when it fails.  A token  *)
(* recognizer returns [ok, tok, next].                                     *)
(***************************************************************************)
EXTENDS Integers, Sequences, FiniteSets, TLC

\* ------------------------------------------------------------------------
\* Characters
\* ------------------------------------------------------------------------
LowerCase == {"a", "b", "c", "d", "e", "f", "g", "h", "i", "j", "k", "l", "m",
              "n", "o", "p", "q", "r", "s", "t", "u", "v", "w", "x", "y", "z"}
UpperCase == {"A", "B", "C", "D", "E", "F", "G", "H", "I", "J", "K", "L", "M",
              "N", "O", "P", "Q", "R", "S", "T", "U", "V", "W", "X", "Y", "Z"}

\* combine's letter(): char::is_alphabetic
letter == LowerCase \cup UpperCase
\* combine's digit(), oct_digit(), hex_digit()
digit == {"0", "1", "2", "3", "4", "5", "6", "7", "8", "9"}
oct_digit == {"0", "1", "2", "3", "4", "5", "6", "7"}
hex_digit == digit \cup {"a", "b", "c", "d", "e", "f", "A", "B", "C", "D", "E", "F"}

\* char::is_whitespace, the set str::trim_left strips (U+FEFF is not in it)
rust_whitespace == {"\t", "\n", "VT", "\f", "\r", " ", "NEL", "NBSP", "LS", "PS"}

\* the characters above U+0FFF (4095) among those the model names
AboveSourceChar == {"LS", "PS", "BOM"}

\* ------------------------------------------------------------------------
\* Tokens and parse results
\* ------------------------------------------------------------------------
Tok(type, val) == [type |-> type, val |-> val, flags |-> <<>>]
NoTok == Tok("None", <<>>)
Ok(tok, next) == [ok |-> TRUE, tok |-> tok, next |-> next]
Fail == [ok |-> FALSE, tok |-> NoTok, next |-> 0]

Min(S) == CHOOSE x \in S : \A y \in S : x <= y
Max(S) == CHOOSE x \in S : \A y \in S : x >= y

\* many(one of S): the index after the longest run of characters of S
RECURSIVE SkipIn(_, _, _)
SkipIn(s, i, S) == IF i <= Len(s) /\ s[i] \in S THEN SkipIn(s, i + 1, S) ELSE i

\* many(none_of(S))
RECURSIVE SkipNotIn(_, _, _)
SkipNotIn(s, i, S) == IF i <= Len(s) /\ s[i] \notin S THEN SkipNotIn(s, i + 1, S) ELSE i

\* c_char(c)
c_char(c, s, i) == IF i <= Len(s) /\ s[i] = c THEN i + 1 ELSE 0

\* combine's string(w): w is a prefix of the input
string(w, s, i) ==
  IF i + Len(w) - 1 <= Len(s) /\ \A k \in 1..Len(w) : s[i + k - 1] = w[k]
  THEN i + Len(w) ELSE 0

\* choice over try(string(w)) for the words of ws, in order: the position in
\* ws of the first word that matches, or 0
first_word(ws, s, i) ==
  LET m == {k \in 1..Len(ws) : string(ws[k], s, i) # 0}
  IN IF m = {} THEN 0 ELSE Min(m)

\* choice((try(p1), try(p2), ..)) given the results of p1, p2, ..: the result
\* of the first parser that succeeds
choice(rs) ==
  LET ok == {k \in 1..Len(rs) : rs[k].ok}
  IN IF ok = {} THEN Fail ELSE rs[Min(ok)]

\* ------------------------------------------------------------------------
\* tokens.rs: boolean, null, keywords, identifiers
\* ------------------------------------------------------------------------
boolean_literal(s, i) ==
  IF string(<<"t","r","u","e">>, s, i) # 0
  THEN Ok(Tok("Boolean", <<"t","r","u","e">>), i + 4)
  ELSE IF string(<<"f","a","l","s","e">>, s, i) # 0
  THEN Ok(Tok("Boolean", <<"f","a","l","s","e">>), i + 5)
  ELSE Fail

end_of_input(s, i) == IF i > Len(s) THEN Ok(Tok("EoF", <<>>), i) ELSE Fail

ident_stop == {"\n", "\r", ".", " ", "(", "[", "{"}

ident(s, i) ==
  IF i <= Len(s) /\ (s[i] \in {"$", "_"} \/ s[i] \in letter)
  THEN LET j == SkipNotIn(s, i + 1, ident_stop \ {"$", "_"})
       IN Ok(Tok("Ident", SubSeq(s, i, j - 1)), j)
  ELSE Fail

reserved_words ==
  << <<"b","r","e","a","k">>, <<"c","a","s","e">>, <<"c","a","t","c","h">>, <<"c","o","n","t","i","n","u","e">>,
     <<"d","e","b","u","g","g","e","r">>, <<"d","e","f","a","u","l","t">>, <<"d","e","l","e","t","e">>, <<"d","o">>,
     <<"e","l","s","e">>, <<"f","i","n","a","l","l","y">>, <<"f","o","r">>, <<"f","u","n","c","t","i","o","n">>,
     <<"i","f">>, <<"i","n","s","t","a","n","c","e","o","f">>, <<"i","n">>, <<"n","e","w">>,
     <<"r","e","t","u","r","n">>, <<"s","w","i","t","c","h">>, <<"t","h","i","s">>, <<"t","h","r","o","w">>,
     <<"t","r","y">>, <<"t","y","p","e","o","f">>, <<"v","a","r">>, <<"v","o","i","d">>,
     <<"w","h","i","l","e">>, <<"w","i","t","h">> >>

future_reserved_words ==
  << <<"e","x","p","o","r","t">>, <<"i","m","p","o","r","t">>, <<"s","u","p","e","r">>, <<"e","n","u","m">> >>

strict_mode_reserved_words ==
  << <<"i","m","p","l","e","m","e","n","t","s">>, <<"i","n","t","e","r","f","a","c","e">>,
     <<"p","a","c","k","a","g","e">>, <<"p","r","i","v","a","t","e">>,
     <<"p","r","o","t","e","c","t","e","d">>, <<"p","u","b","l","i","c">>, <<"s","t","a","t","i","c">>,
     <<"y","i","e","l","d">>, <<"l","e","t">> >>

restricted_words ==
  << <<"e","v","a","l">>, <<"a","r","g","u","m","e","n","t","s">> >>

\* choice over the words of one keyword group
keyword_of(ws, s, i) ==
  LET k == first_word(ws, s, i)
  IN IF k = 0 THEN Fail ELSE Ok(Tok("Keyword", ws[k]), i + Len(ws[k]))

reserved(s, i) == keyword_of(reserved_words, s, i)
future_reserved(s, i) == keyword_of(future_reserved_words, s, i)
strict_mode_reserved(s, i) == keyword_of(strict_mode_reserved_words, s, i)
restricted(s, i) == keyword_of(restricted_words, s, i)

keyword(s, i) ==
  choice(<<future_reserved(s, i), strict_mode_reserved(s, i), restricted(s, i),
           reserved(s, i)>>)

null_literal(s, i) ==
  IF string(<<"n","u","l","l">>, s, i) # 0 THEN Ok(Tok("Null", <<>>), i + 4) ELSE Fail

\* ------------------------------------------------------------------------
\* tokens.rs: numeric literals
\* ------------------------------------------------------------------------
\* optional(choice([c_char('-'), c_char('+')]))
sign(s, i) == IF i <= Len(s) /\ s[i] \in {"-", "+"} THEN i + 1 ELSE i

\* optional((e|E, many1(digit))) read at c: the index after it, c when no e
\* follows, 0 when an e is consumed and no digit follows (optional fails when
\* its parser fails after consuming input)
exponent(s, c) ==
  IF c <= Len(s) /\ s[c] \in {"e", "E"}
  THEN IF SkipIn(s, c + 1, digit) = c + 1 THEN 0 ELSE SkipIn(s, c + 1, digit)
  ELSE c

full_decimal_literal(s, i) ==
  LET a == sign(s, i)
      b == SkipIn(s, a, digit)
      c == IF b <= Len(s) /\ s[b] = "." THEN SkipIn(s, b + 1, digit) ELSE b
      d == exponent(s, c)
  IN IF b = a \/ d = 0 THEN Fail ELSE Ok(Tok("Numeric", SubSeq(s, i, d - 1)), d)

no_leading_decimal(s, i) ==
  LET a == sign(s, i)
      b == c_char(".", s, a)
      c == SkipIn(s, b, digit)
      d == exponent(s, c)
  IN IF b = 0 \/ c = b \/ d = 0 THEN Fail ELSE Ok(Tok("Numeric", SubSeq(s, i, d - 1)), d)

decimal_literal(s, i) == choice(<<full_decimal_literal(s, i), no_leading_decimal(s, i)>>)

\* sign, '0', one of the two radix letters, many1 of the radix digits
radix_literal(marks, digits, s, i) ==
  LET a == sign(s, i)
      b == c_char("0", s, a)
      c == IF b # 0 /\ b <= Len(s) /\ s[b] \in marks THEN b + 1 ELSE 0
      d == SkipIn(s, c, digits)
  IN IF c = 0 \/ d = c THEN Fail ELSE Ok(Tok("Numeric", SubSeq(s, i, d - 1)), d)

hex_literal(s, i) == radix_literal({"x", "X"}, hex_digit, s, i)
bin_literal(s, i) == radix_literal({"b", "B"}, {"1", "0"}, s, i)
octal_literal(s, i) == radix_literal({"o", "O"}, oct_digit, s, i)

numeric_literal(s, i) ==
  choice(<<bin_literal(s, i), octal_literal(s, i), hex_literal(s, i), decimal_literal(s, i)>>)

\* ------------------------------------------------------------------------
\* tokens.rs: punctuators
\* ------------------------------------------------------------------------
normal_punct_chars ==
  {"{", "}", "(", ")", ".", ";", ",", "[", "]", ":", "?", "~", ">", "<", "=",
   "!", "+", "-", "*", "%", "&", "|", "^"}

normal_punct(s, i) == IF i <= Len(s) /\ s[i] \in normal_punct_chars THEN i + 1 ELSE 0

\* string("/").skip(not_followed_by(c_char('*')))
div_punct(s, i) ==
  IF c_char("/", s, i) # 0 /\ c_char("*", s, i + 1) = 0 THEN i + 1 ELSE 0

single_punct(s, i) == IF normal_punct(s, i) # 0 THEN normal_punct(s, i) ELSE div_punct(s, i)

\* the list with ">>>" tried before ">>>=" and "**" before "**="
multi_punct_words_short_first ==
  << <<">",">",">">>, <<"*","*">>, <<">",">",">","=">>, <<".",".",".">>, <<"=","=","=">>,
     <<"!","=","=">>, <<"<","<","=">>, <<">",">","=">>, <<"*","*","=">>, <<"&","&">>,
     <<"|","|">>, <<"=","=">>, <<"!","=">>, <<"+","=">>, <<"-","=">>, <<"*","=">>,
     <<"/","=">>, <<"+","+">>, <<"-","-">>, <<"<","<">>, <<">",">">>, <<"&","=">>,
     <<"|","=">>, <<"^","=">>, <<"%","=">>, <<"<","=">>, <<">","=">>, <<"=",">">> >>

multi_punct_words ==
  << <<">",">",">","=">>, <<".",".",".">>, <<"=","=","=">>, <<"!","=","=">>, <<">",">",">">>, <<"<","<","=">>,
     <<">",">","=">>, <<"*","*","=">>, <<"&","&">>, <<"|","|">>, <<"=","=">>, <<"!","=">>,
     <<"+","=">>, <<"-","=">>, <<"*","=">>, <<"/","=">>, <<"+","+">>, <<"-","-">>,
     <<"<","<">>, <<">",">">>, <<"&","=">>, <<"|","=">>, <<"^","=">>, <<"%","=">>,
     <<"<","=">>, <<">","=">>, <<"=",">">>, <<"*","*">> >>

multi_punct(s, i) ==
  LET k == first_word(multi_punct_words, s, i)
  IN IF k = 0 THEN 0 ELSE i + Len(multi_punct_words[k])

punctuation(s, i) ==
  LET j == IF multi_punct(s, i) # 0 THEN multi_punct(s, i) ELSE single_punct(s, i)
  IN IF j = 0 THEN Fail ELSE Ok(Tok("Punct", SubSeq(s, i, j - 1)), j)

\* ------------------------------------------------------------------------
\* tokens.rs: string literals
\* ------------------------------------------------------------------------
\* many(choice((try(escaped(q)), try(escaped('\\')), try(none_of([q, \n, \r])))))
\* read at i: [next, val], val the mapped content (escaped(c) yields c alone,
\* and the map writes a quote back as backslash-quote)
RECURSIVE quoted_content(_, _, _)
quoted_content(q, s, i) ==
  IF i + 1 <= Len(s) /\ s[i] = "\\" /\ s[i + 1] = q
  THEN LET r == quoted_content(q, s, i + 2)
       IN [next |-> r.next, val |-> <<"\\", q>> \o r.val]
  ELSE IF i + 1 <= Len(s) /\ s[i] = "\\" /\ s[i + 1] = "\\"
  THEN LET r == quoted_content(q, s, i + 2)
       IN [next |-> r.next, val |-> <<"\\">> \o r.val]
  ELSE IF i <= Len(s) /\ s[i] \notin {q, "\n", "\r"}
  THEN LET r == quoted_content(q, s, i + 1)
       IN [next |-> r.next, val |-> <<s[i]>> \o r.val]
  ELSE [next |-> i, val |-> <<>>]

\* between(c_char(q), c_char(q), many(content))
quoted(q, s, i) ==
  IF c_char(q, s, i) = 0 THEN Fail
  ELSE LET r == quoted_content(q, s, i + 1)
       IN IF c_char(q, s, r.next) = 0 THEN Fail
          ELSE Ok(Tok("String", r.val), r.next + 1)

single_quoted_content(s, i) == quoted_content("'", s, i)
double_quoted_content(s, i) == quoted_content("\"", s, i)
single_quote(s, i) == quoted("'", s, i)
double_quote(s, i) == quoted("\"", s, i)

string_literal(s, i) == choice(<<single_quote(s, i), double_quote(s, i)>>)

\* ------------------------------------------------------------------------
\* tokens.rs: the regex alternative of token()
\* ------------------------------------------------------------------------
regex_first_char(s, i) == IF i <= Len(s) /\ s[i] \notin {"\n", "\r", "\\"} THEN i + 1 ELSE 0

\* choice((escaped('/'), none_of(['/', '\r', '\n']))), no try: -1 when the
\* backslash of escaped is consumed and no '/' follows (the choice fails after
\* consuming input and so does every parser around it), 0 when nothing matches
regex_char(s, i) ==
  IF i <= Len(s) /\ s[i] = "\\"
  THEN IF i + 1 <= Len(s) /\ s[i + 1] = "/" THEN i + 2 ELSE -1
  ELSE IF i <= Len(s) /\ s[i] \notin {"/", "\r", "\n"} THEN i + 1 ELSE 0

\* many(regex_char()): the index after the run, -1 when a regex_char fails
\* after consuming input
RECURSIVE regex_chars(_, _)
regex_chars(s, i) ==
  LET j == regex_char(s, i)
  IN IF j = 0 THEN i ELSE IF j = -1 THEN -1 ELSE regex_chars(s, j)

regex(s, i) ==
  LET a == c_char("/", s, i)
      b == IF a = 0 THEN 0 ELSE regex_first_char(s, a)
      c == IF b = 0 THEN 0 ELSE regex_chars(s, b)
      d == IF c <= b THEN 0 ELSE c_char("/", s, c)
      e == SkipIn(s, d, letter)
  IN IF b = 0 \/ c <= b \/ d = 0 THEN Fail
     ELSE [ok |-> TRUE, next |-> e,
           tok |-> [type |-> "RegEx", val |-> SubSeq(s, a, c - 1),
                    flags |-> IF e = d THEN <<>> ELSE <<SubSeq(s, d, e - 1)>>]]

\* ------------------------------------------------------------------------
\* tokens.rs: comments
\* ------------------------------------------------------------------------
single_comment(s, i) ==
  IF string(<<"/", "/">>, s, i) = 0 THEN Fail
  ELSE LET j == SkipNotIn(s, i + 2, {"\n", "\r"})
       IN Ok(Tok("Comment", SubSeq(s, i + 2, j - 1)), j)

\* str::trim
RECURSIVE trim_right(_)
trim_right(l) ==
  IF l # <<>> /\ l[Len(l)] \in rust_whitespace THEN trim_right(SubSeq(l, 1, Len(l) - 1)) ELSE l

trim(l) == trim_right(SubSeq(l, SkipIn(l, 1, rust_whitespace), Len(l)))

\* c.lines().map(|l| l.trim()).collect::<Vec<&str>>().join("\n")
RECURSIVE trim_lines(_)
trim_lines(c) ==
  LET nl == SkipNotIn(c, 1, {"\n"})
  IN IF nl > Len(c) THEN trim(c)
     ELSE IF nl = Len(c) THEN trim(SubSeq(c, 1, nl - 1))
     ELSE trim(SubSeq(c, 1, nl - 1)) \o <<"\n">> \o trim_lines(SubSeq(c, nl + 1, Len(c)))

\* take_until(try(string("*/"))): the index of the first "*/" at or after i, 0
\* when there is none
RECURSIVE take_until_end(_, _)
take_until_end(s, i) ==
  IF i + 1 > Len(s) THEN 0
  ELSE IF s[i] = "*" /\ s[i + 1] = "/" THEN i
  ELSE take_until_end(s, i + 1)

multi_line_comment_start(s, i) == string(<<"/", "*">>, s, i)
multi_line_comment_end(s, i) == string(<<"*", "/">>, s, i)

multi_comment(s, i) ==
  LET a == multi_line_comment_start(s, i)
      b == IF a = 0 THEN 0 ELSE take_until_end(s, a)
  IN IF b = 0 THEN Fail
     ELSE Ok(Tok("Comment", trim_lines(SubSeq(s, a, b - 1))), multi_line_comment_end(s, b))

comment(s, i) == choice(<<multi_comment(s, i), single_comment(s, i)>>)

\* ------------------------------------------------------------------------
\* Template parts.  lib.rs calls strings::template() and tests
\* is_template_head()/is_template_tail() on tokens; the strings module is not
\* among the sources, so the recognizers follow the specification, section 4.4
\* ------------------------------------------------------------------------
\* the content of a template part read at i: the index of the back-tick or of
\* the "${" that ends it, 0 when the input ends first; a backslash keeps the
\* character after it in the content
RECURSIVE template_content(_, _)
template_content(s, i) ==
  IF i > Len(s) THEN 0
  ELSE IF s[i] = "BT" THEN i
  ELSE IF s[i] = "$" /\ i + 1 <= Len(s) /\ s[i + 1] = "{" THEN i
  ELSE IF s[i] = "\\" /\ i + 1 <= Len(s) THEN template_content(s, i + 2)
  ELSE template_content(s, i + 1)

\* a part whose content starts at i: closed is its type when a back-tick ends
\* it, open when "${" does
template_part(closed, open, s, i) ==
  LET j == template_content(s, i)
  IN IF j = 0 THEN Fail
     ELSE IF s[j] = "BT" THEN Ok(Tok(closed, SubSeq(s, i, j - 1)), j + 1)
     ELSE Ok(Tok(open, SubSeq(s, i, j - 1)), j + 2)

\* the template alternative of token(): NoSub or Head, opened by a back-tick
template_start(s, i) ==
  IF c_char("BT", s, i) = 0 THEN Fail
  ELSE template_part("TemplateNoSub", "TemplateHead", s, i + 1)

\* strings::template(): Middle or Tail, read after the "}" of a substitution
template(s, i) == template_part("TemplateTail", "TemplateMiddle", s, i)

\* ------------------------------------------------------------------------
\* tokens.rs: token()
\* ------------------------------------------------------------------------
token(s, i) ==
  choice(<<comment(s, i), boolean_literal(s, i), keyword(s, i), ident(s, i),
           null_literal(s, i), numeric_literal(s, i), regex(s, i), punctuation(s, i),
           string_literal(s, i), end_of_input(s, i), template_start(s, i)>>)

\* ------------------------------------------------------------------------
\* regex.rs: the re-scan of a regex after its opening '/'
\* ------------------------------------------------------------------------
\* c as u32 <= 4095
is_source_char(c) == c \notin AboveSourceChar

is_line_term(c) == c \in {"\n", "\r", "LS", "PS"}

source_char_not_line_term(s, i) ==
  IF i <= Len(s) /\ is_source_char(s[i]) /\ ~is_line_term(s[i]) THEN i + 1 ELSE 0

regular_expression_backslash_sequence(s, i) ==
  IF c_char("\\", s, i) = 0 THEN 0 ELSE source_char_not_line_term(s, i + 1)

regular_expression_class_char(s, i) ==
  IF i <= Len(s) /\ is_source_char(s[i]) /\ s[i] \notin {"\n", "\\", "]"} THEN i + 1
  ELSE regular_expression_backslash_sequence(s, i)

RECURSIVE regular_expression_class_chars(_, _)
regular_expression_class_chars(s, i) ==
  LET j == regular_expression_class_char(s, i)
  IN IF j = 0 THEN i ELSE regular_expression_class_chars(s, j)

regular_expression_class(s, i) ==
  IF c_char("[", s, i) = 0 THEN 0
  ELSE c_char("]", s, regular_expression_class_chars(s, i + 1))

regex_body_first_source_char(s, i) ==
  IF i <= Len(s) /\ is_source_char(s[i]) /\ s[i] \notin {"\n", "*", "\\", "/", "["}
  THEN i + 1 ELSE 0

regex_body_source_char(s, i) ==
  IF i <= Len(s) /\ is_source_char(s[i]) /\ s[i] \notin {"\n", "\\", "/", "["}
  THEN i + 1 ELSE 0

\* regex.rs regex_first_char
regex_tail_first_char(s, i) ==
  IF regex_body_first_source_char(s, i) # 0 THEN regex_body_first_source_char(s, i)
  ELSE IF regular_expression_backslash_sequence(s, i) # 0
  THEN regular_expression_backslash_sequence(s, i)
  ELSE regular_expression_class(s, i)

\* regex.rs regex_char
regex_tail_char(s, i) ==
  IF regex_body_source_char(s, i) # 0 THEN regex_body_source_char(s, i)
  ELSE IF regular_expression_backslash_sequence(s, i) # 0
  THEN regular_expression_backslash_sequence(s, i)
  ELSE regular_expression_class(s, i)

RECURSIVE regex_tail_chars(_, _)
regex_tail_chars(s, i) ==
  LET j == regex_tail_char(s, i)
  IN IF j = 0 THEN i ELSE regex_tail_chars(s, j)

regex_body(s, i) ==
  IF regex_tail_first_char(s, i) = 0 THEN 0
  ELSE regex_tail_chars(s, regex_tail_first_char(s, i))

\* tokens::ident_part, which regex.rs imports and tokens.rs does not define:
\* the identifier-part characters of the specification
ident_part == letter \cup digit \cup {"$", "_"}

regex_flags(s, i) == SkipIn(s, i, ident_part)

\* RegEx::from_parts: empty flags are no flags
from_parts(body, fl) ==
  [type |-> "RegEx", val |-> body, flags |-> IF fl = <<>> THEN <<>> ELSE <<fl>>]

regex_tail(s, i) ==
  LET b == regex_body(s, i)
      c == IF b = 0 THEN 0 ELSE c_char("/", s, b)
      d == regex_flags(s, c)
  IN IF c = 0 THEN Fail
     ELSE Ok(from_parts(SubSeq(s, i, b - 1), SubSeq(s, c, d - 1)), d)

\* ------------------------------------------------------------------------
\* lib.rs: the Scanner
\* ------------------------------------------------------------------------
VARIABLES
  stream,               \* the source text
  eof,                  \* the EoF item has been produced
  cursor,               \* offset of the next lexeme
  spans,                \* spans of the items produced so far, <<start, end>>
  last_open_paren_idx,  \* index into spans (0-based) set at each "("
  in_template,
  in_replacement,
  ret,                  \* what the last call of next() returned
  items                 \* the items next() has returned so far

vars == <<stream, eof, cursor, spans, last_open_paren_idx, in_template,
          in_replacement, ret, items>>

\* the values of ret: nothing returned yet, None, Some(item), or the call
\* panicked at the given line of lib.rs and the scanner is gone
Ret(kind, tok, span, line) == [kind |-> kind, tok |-> tok, span |-> span, line |-> line]
NotCalled == Ret("NotCalled", NoTok, <<0, 0>>, 0)
None == Ret("None", NoTok, <<0, 0>>, 0)
Some(tok, span) == Ret("Some", tok, span, 0)
Panic(line) == Ret("Panic", NoTok, <<0, 0>>, line)

\* Token predicates lib.rs uses
matches_punct(tok, p) == tok.type = "Punct" /\ tok.val = p
matches_keyword(tok, k) == tok.type = "Keyword" /\ tok.val = k
is_keyword(tok) == tok.type = "Keyword"
is_punct(tok) == tok.type = "Punct"
is_ident(tok) == tok.type = "Ident"
is_eof(tok) == tok.type = "EoF"
is_template_head(tok) == tok.type = "TemplateHead"
is_template_tail(tok) == tok.type = "TemplateTail"

\* str::trim_left read at index i: the index of the first character that is
\* not whitespace
trim_left(s, i) == SkipIn(s, i, rust_whitespace)

\* Option<Token>: the type "None" is Option::None
token_for(span) ==
  LET r == token(SubSeq(stream, span[1] + 1, span[2]), 1)
  IN IF r.ok THEN r.tok ELSE NoTok

last_token == IF Len(spans) = 0 THEN NoTok ELSE token_for(spans[Len(spans)])

\* self.spans[self.last_open_paren_idx - n] panics when the subtraction
\* underflows: in a debug build on the overflow, in a release build on the
\* wrapped index, which is out of range
nth_before_last_open_paren_panics(n) == Len(spans) >= n /\ last_open_paren_idx < n

nth_before_last_open_paren(n) ==
  IF Len(spans) < n \/ last_open_paren_idx < n THEN NoTok
  ELSE token_for(spans[last_open_paren_idx - n + 1])

check_for_conditional ==
  \E before \in {nth_before_last_open_paren(1)} :
    IF before.type # "None"
    THEN \/ matches_keyword(before, <<"i","f">>)
         \/ matches_keyword(before, <<"f","o","r">>)
         \/ matches_keyword(before, <<"w","h","i","l","e">>)
         \/ matches_keyword(before, <<"w","i","t","h">>)
    ELSE TRUE

expression_puncts ==
  { <<"{">>, <<"[">>, <<"=">>, <<"+","=">>, <<"-","=">>, <<"*","=">>, <<"*","*","=">>,
    <<"/","=">>, <<"%","=">>, <<"<","<","=">>, <<">",">","=">>, <<">",">",">","=">>,
    <<"&","=">>, <<"|","=">>, <<"^","=">>, <<",">>, <<"+">>, <<"-">>, <<"*">>,
    <<"*","*">>, <<"/">>, <<"%">>, <<"+","+">>, <<"-","-">>, <<"<","<">>, <<">",">">>,
    <<">",">",">">>, <<"&">>, <<"|">>, <<"^">>, <<"!">>, <<"~">>, <<"&","&">>,
    <<"|","|">>, <<"?">>, <<":">>, <<"=","=","=">>, <<"=","=">>, <<">","=">>,
    <<"<","=">>, <<"<">>, <<">">>, <<"!","=">>, <<"!","=","=">> }

expression_keywords ==
  { <<"i","n">>, <<"t","y","p","e","o","f">>, <<"i","n","s","t","a","n","c","e","o","f">>,
    <<"n","e","w">>, <<"r","e","t","u","r","n">>, <<"c","a","s","e">>,
    <<"d","e","l","e","t","e">>, <<"t","h","r","o","w">>, <<"v","o","i","d">> }

\* the conjunction without its first test
check_for_expression_no_paren(tok) ==
  /\ \A p \in expression_puncts : ~matches_punct(tok, p)
  /\ \A k \in expression_keywords : ~matches_keyword(tok, k)

\* lines 181-236
check_for_expression(tok) ==
  /\ matches_punct(tok, <<"(">>)
  /\ \A p \in expression_puncts : ~matches_punct(tok, p)
  /\ \A k \in expression_keywords : ~matches_keyword(tok, k)

check_for_func ==
  \E before \in {nth_before_last_open_paren(1)},
     three_before \in {nth_before_last_open_paren(3)},
     two_before \in {nth_before_last_open_paren(2)} :
    IF before.type # "None" /\ is_ident(before) /\ three_before.type # "None"
    THEN check_for_expression(three_before)
    ELSE IF before.type # "None" /\ ~is_ident(before)
            /\ matches_keyword(before, <<"f","u","n","c","t","i","o","n">>)
    THEN IF two_before.type # "None" THEN check_for_expression(two_before) ELSE FALSE
    ELSE TRUE

\* is_regex_start without the "}" test of line 131, so that the "}" branch of
\* lines 135-136 is taken
is_regex_start_func ==
  \E last \in {last_token} :
    IF last.type # "None"
    THEN IF ~is_keyword(last) /\ ~is_punct(last) THEN FALSE
         ELSE IF matches_keyword(last, <<"t","h","i","s">>) THEN FALSE
         ELSE IF matches_punct(last, <<")">>) THEN check_for_conditional
         ELSE IF matches_punct(last, <<"}">>) THEN check_for_func
         ELSE TRUE
    ELSE FALSE

\* lines 128-142, last the value of self.last_token()
is_regex_start_after(last) ==
  IF last.type # "None"
  THEN IF ~is_keyword(last) /\ ~is_punct(last) THEN FALSE
       ELSE IF matches_keyword(last, <<"t","h","i","s">>)
               \/ matches_punct(last, <<"}">>) THEN FALSE
       ELSE IF matches_punct(last, <<")">>) THEN check_for_conditional
       ELSE IF matches_punct(last, <<"}">>) THEN check_for_func
       ELSE TRUE
  ELSE FALSE

is_regex_start == \E last \in {last_token} : is_regex_start_after(last)

\* is_regex_start reaches the indexing of nth_before_last_open_paren and it
\* panics there
is_regex_start_panics ==
  /\ matches_punct(last_token, <<")">>)
  /\ nth_before_last_open_paren_panics(1)

\* ------------------------------------------------------------------------
\* Source texts
\* ------------------------------------------------------------------------
\* the texts of tests of lib.rs and tests/snippets/main.rs
template_one_sub ==
  <<"BT","t","h","i","n","g","s"," ","a","n","d"," ","s","t","u","f","f",
    " ","t","i","m","e","s"," ","$","{","x","}","BT">>

template_two_subs ==
  <<"BT","t","h","i","n","g","s"," ","a","n","d"," ","s","t","u","f","f",
    " ","t","i","m","e","s"," ","$","{","x","}"," ","d","i","v","i","d","e",
    "d"," ","b","y"," ","$","{","y","}","BT">>

if_then_regex ==
  <<"i","f"," ","(","1",")"," ","/","a","/">>

regex_over_div ==
  <<"{","}","/","\\","d","/","g",";",";">>

div_over_regex ==
  <<"i","f"," ","(","t","r","u","e",")"," ","{","\n"," "," ","(","{","}",
    " ","/"," ","f","u","n","c","t","i","o","n","(",")","{","r","e","t","u",
    "r","n"," ","1","}",")",";","\n","}","\n">>

\* a character no recognizer accepts
unrecognized == <<"1"," ","#">>

Scenarios == {template_one_sub, template_two_subs, if_then_regex, regex_over_div,
              div_over_regex, unrecognized}

\* texts put together from at most MaxFragments fragments
Fragments ==
  { <<"i","f">>, <<"(">>, <<")">>, <<"/">>, <<"a">>, <<"1">>, <<" ">>,
    <<"{">>, <<"}">>, <<"BT">>, <<"$","{">> }

MaxFragments == 3

RECURSIVE Texts(_)
Texts(n) ==
  IF n = 0 THEN {<<>>}
  ELSE LET shorter == Texts(n - 1)
       IN shorter \cup {t \o f : t \in shorter, f \in Fragments}

\* template literals with 1..MaxSubs substitutions, no brace and no back-tick
\* in their expressions
TextChunks == {<<>>, <<"a">>, <<" ","b"," ">>}
ExprChunks == {<<"1">>, <<"x">>, <<" ","1"," ","+"," ","y"," ">>}

MaxSubs == 2

RECURSIVE Substitutions(_)
Substitutions(n) ==
  LET one == {<<"$","{">> \o e \o <<"}">> \o t : e \in ExprChunks, t \in TextChunks}
  IN IF n = 1 THEN one
     ELSE LET fewer == Substitutions(n - 1)
          IN fewer \cup {f \o o : f \in fewer, o \in one}

SimpleTemplates ==
  {<<"BT">> \o t \o b \o <<"BT">> : t \in TextChunks, b \in Substitutions(MaxSubs)}

\* parenthesised groups nested at most MaxNesting deep, each after nothing, a
\* keyword or a number, followed by a '/'
GroupHeads == {<<>>, <<"i","f">>, <<"1">>}
GroupTails == {<<>>, <<"1">>}
SlashTails == {<<"/">>, <<" ","/","a","/">>}

MaxNesting == 2

RECURSIVE Groups(_)
Groups(n) ==
  IF n = 0 THEN {<<>>, <<"1">>}
  ELSE LET inner == Groups(n - 1)
       IN inner \cup {h \o <<"(">> \o g \o <<")">> \o t :
                        h \in GroupHeads, g \in inner, t \in GroupTails}

ParenTexts == {g \o t : g \in Groups(MaxNesting), t \in SlashTails}

\* a brace pair after nothing, "(", an assignment or a condition, followed by
\* a '/'
BraceHeads == {<<>>, <<"(">>, <<"x"," ","="," ">>, <<"i","f"," ","(","1",")"," ">>,
               <<"f"," ","(",")"," ">>}
BraceBodies == {<<>>, <<"1">>, <<" ","a"," ",":"," ","1"," ">>}

BraceTexts ==
  {h \o <<"{">> \o b \o <<"}">> \o t : h \in BraceHeads, b \in BraceBodies, t \in SlashTails}

\* a '/' after each kind of token: identifier, number, string, boolean, null,
\* this, other keywords, punctuators, regex literals, template literals
LastTokens ==
  { <<"x"," ">>, <<"1">>, <<"'","a","'">>, <<"t","r","u","e">>, <<"n","u","l","l"," ">>,
    <<"t","h","i","s">>, <<"r","e","t","u","r","n">>, <<"t","y","p","e","o","f">>,
    <<"=">>, <<",">>, <<"(">>, <<"="," ","/","a","/">>, <<"="," ","/","a","b","/","g">>,
    <<"BT","a","BT">>, <<"BT","$","{","1","}","BT">> }

AfterTexts == {l \o t : l \in LastTokens, t \in SlashTails \cup {<<" ","/"," ","2">>}}

\* a '/' after a token and one or two comments
CommentHeads == {<<"="," ">>, <<"x"," ">>, <<"("," ">>, <<"r","e","t","u","r","n"," ">>,
                 <<"i","f"," ","(","1",")"," ">>, <<"f"," ","(","1",")"," ">>}
Comments == {<<"/","*","c","*","/">>, <<"/","/","c","\n">>,
             <<"/","*","c","*","/"," ","/","*","d","*","/">>}

CommentTexts == {h \o c \o t : h \in CommentHeads, c \in Comments, t \in SlashTails}

\* template literals whose substitution holds braces or a template literal
BraceExprs == { <<"{","}">>, <<"{"," ","1"," ","}">>, <<"{","{","}","}">> }
TemplateExprs ==
  { <<"BT","a","BT">>, <<"BT","$","{","1","}","BT">>,
    <<"1"," ","+"," ","BT","a","$","{","2","}","b","BT"," ">> }

Substituted(exprs) ==
  {<<"BT","$","{">> \o e \o <<"}">> \o t \o <<"BT">> : e \in exprs, t \in TextChunks}

NestedTexts == Substituted(BraceExprs) \cup Substituted(TemplateExprs)

\* words that are or begin with a keyword, a boolean or null
Words ==
  { <<"n","u","l","l">>, <<"t","r","u","e">>, <<"f","a","l","s","e">>, <<"i","f">>, <<"l","e","t">>,
    <<"e","n","u","m">>, <<"e","v","a","l">>, <<"t","r","u","e","i","s","h">>,
    <<"f","u","n","c","t","i","o","n","a","l">>, <<"l","e","t","t","e","r">>,
    <<"n","u","l","l","s">>, <<"i","n","s","t","a","n","c","e","o","f">>, <<"x">> }
WordTails == {<<>>, <<" ">>, <<";">>, <<" ","=">>, <<"(",")">>}

WordTexts == {w \o t : w \in Words, t \in WordTails}

\* the same statement with and without whitespace between its tokens, and
\* with other whitespace characters
let_tight == <<"l","e","t"," ","x","=","0",";">>
let_spaced == <<"l","e","t"," ","x"," ","="," ","0"," ",";">>
let_tabbed == <<"l","e","t","\t","x","\t","=","\n","0",";">>

WhitespaceTexts == {let_tight, let_spaced, let_tabbed}

\* numeric literals of each radix, bare and after a sign, at the start of the
\* text and after an assignment
Numbers ==
  { <<"1">>, <<"0","x","1","F">>, <<"0","b","1","0">>, <<"0","o","7">>, <<"1",".","5">>,
    <<".","5">> }

SignedTexts ==
  {h \o g \o n : h \in {<<>>, <<"x"," ","="," ">>}, g \in {<<>>, <<"-">>, <<"+">>},
                 n \in Numbers}

\* tests/snippets/main.rs number_member
number_member == <<"2","0",".",".","t","o","S","t","r","i","n","g","(",")">>

\* decimal literals with and without fraction and exponent
DecimalTexts ==
  { number_member, <<"1","e","-","5">>, <<"1","e","5">>, <<"1","E","+","5">>, <<"1",".">>,
    <<"1",".","5","e","1","0">>, <<"1",".","e","3">>, <<"1","2">>, <<"1",".","5",".">>,
    <<"1","e","5"," ","+"," ","2">>, <<"0",".","1","2",";">>, <<"1","e">>, <<"1","2","e","+">> }

\* every punctuator alone and followed by a character that may lengthen it
PunctTails == {<<>>, <<"=">>, <<">">>, <<" ","1">>}

PunctTexts ==
  {<<c>> \o t : c \in normal_punct_chars \cup {"/"}, t \in PunctTails}
    \cup {multi_punct_words[k] \o t : k \in 1..Len(multi_punct_words), t \in PunctTails}

\* one character between two numbers and before the first: the whitespace
\* characters of ECMAScript and one more that char::is_whitespace accepts
ecma_whitespace == {" ", "\t", "VT", "\f", "NBSP", "BOM", "\n", "\r", "LS", "PS"}

SeparatorTexts ==
  {<<"1", w, "2">> : w \in ecma_whitespace \cup {"NEL"}}
    \cup {<<w, "1">> : w \in ecma_whitespace \cup {"NEL"}}

\* string literals with and without escape sequences
StringBodies ==
  { <<"a">>, <<"a","\\","\\","b">>, <<"a","\\","'","b">>, <<"a","\\","\"","b">>,
    <<"\\","\\">>, <<"a","\\","n">>, <<"a"," ","b">> }

StringTexts ==
  {<<q>> \o b \o <<q>> \o t : q \in {"'", "\""}, b \in StringBodies, t \in {<<>>, <<";">>}}

\* regex literals after an assignment: with escapes, classes and flags
RegexBodies ==
  { <<"a">>, <<"a","b">>, <<"[","a","/","]">>, <<"[","/","]">>, <<"a","\\","/","b">>,
    <<"\\","d">>, <<"a","\\","d","b">>, <<"[","a","-","z","]","+">>, <<"\\","/">>,
    <<"[","\\","]","/","]">> }
RegexFlags == {<<>>, <<"g">>, <<"g","i">>, <<"g","1">>}

RegexTexts ==
  {<<"="," ","/">> \o b \o <<"/">> \o f \o t :
     b \in RegexBodies, f \in RegexFlags, t \in {<<>>, <<";">>, <<" ","/"," ","2">>}}

Sources ==
  Texts(MaxFragments) \cup SimpleTemplates \cup ParenTexts \cup BraceTexts \cup Scenarios
    \cup AfterTexts \cup CommentTexts \cup NestedTexts \cup WordTexts \cup WhitespaceTexts
    \cup SignedTexts \cup DecimalTexts \cup PunctTexts \cup SeparatorTexts
    \cup StringTexts \cup RegexTexts

\* ------------------------------------------------------------------------
\* lib.rs: Scanner::new and Iterator::next
\* ------------------------------------------------------------------------
\* Scanner::new
Init ==
  /\ stream \in Sources
  /\ eof = FALSE
  /\ cursor = trim_left(stream, 1) - 1
  /\ spans = <<>>
  /\ last_open_paren_idx = 0
  /\ in_template = FALSE
  /\ in_replacement = FALSE
  /\ ret = NotCalled
  /\ items = <<>>

\* span_end with the end one past the lexeme
span_end_long(rest) == Len(stream) - (Len(stream) - rest)

\* full_len - pair.1.len(), pair.1 the rest of the input from index rest
span_end(rest) == Len(stream) - (Len(stream) - (rest - 1))

\* next_cursor that also skips the first character after the whitespace
next_cursor_skips(rest) ==
  IF trim_left(stream, rest) <= Len(stream)
  THEN Len(stream) - (Len(stream) - trim_left(stream, rest))
  ELSE Len(stream)

\* self.stream.len() - pair.1.trim_left().len()
next_cursor(rest) == Len(stream) - (Len(stream) - (trim_left(stream, rest) - 1))

\* the tail of each Ok arm: record the span, return the item, move the cursor
emit(tok, rest) ==
  \E span \in {<<cursor, span_end(rest)>>} :
    /\ spans' = Append(spans, span)
    /\ ret' = Some(tok, span)
    /\ items' = Append(items, [token |-> tok, span |-> span])
    /\ cursor' = next_cursor(rest)

\* panic!(..): the call does not return and the scanner is not used again
panic(line) ==
  /\ ret' = Panic(line)
  /\ UNCHANGED <<stream, eof, cursor, spans, last_open_paren_idx, in_template,
                 in_replacement, items>>

\* lines 72-83: the rest after '/' re-scanned as a regex
regex_arm(rest) ==
  \E pair \in {regex_tail(stream, rest)} :
    IF pair.ok
    THEN /\ emit(pair.tok, pair.next)
         /\ UNCHANGED <<stream, eof, last_open_paren_idx, in_template, in_replacement>>
    ELSE panic(82)

\* a Tail that leaves in_replacement set
tail_in_replacement_kept(tok) == in_replacement

\* lines 87-90
tail_in_replacement(tok) == IF is_template_tail(tok) THEN FALSE ELSE in_replacement
tail_in_template(tok) == IF is_template_tail(tok) THEN FALSE ELSE in_template

\* lines 85-100: the rest after "}" re-scanned as a template part
template_arm(rest) ==
  \E pair \in {template(stream, rest)} :
    IF pair.ok
    THEN /\ in_replacement' = tail_in_replacement(pair.tok)
         /\ in_template' = tail_in_template(pair.tok)
         /\ emit(pair.tok, pair.next)
         /\ UNCHANGED <<stream, eof, last_open_paren_idx>>
    ELSE panic(99)

\* the index taken after the push instead of before it
open_paren_idx_after(tok) ==
  IF matches_punct(tok, <<"(">>) THEN Len(spans) + 1 ELSE last_open_paren_idx

\* lines 102-104
open_paren_idx(tok) ==
  IF matches_punct(tok, <<"(">>) THEN Len(spans) ELSE last_open_paren_idx

\* an EoF token that does not set eof
eof_after_unset(tok) == eof

\* lines 105-107
eof_after(tok) == IF is_eof(tok) THEN TRUE ELSE eof

\* lines 108-111
head_in_template(tok) == IF is_template_head(tok) THEN TRUE ELSE in_template

\* a Head that sets in_template alone
head_in_replacement_unset(tok) == in_replacement

head_in_replacement(tok) == IF is_template_head(tok) THEN TRUE ELSE in_replacement

\* lines 102-118
token_arm(tok, rest) ==
  /\ last_open_paren_idx' = open_paren_idx(tok)
  /\ eof' = eof_after(tok)
  /\ in_template' = head_in_template(tok)
  /\ in_replacement' = head_in_replacement(tok)
  /\ emit(tok, rest)
  /\ UNCHANGED stream

\* lines 64-68
recognize ==
  IF in_template /\ ~in_replacement
  THEN template(stream, cursor + 1)
  ELSE token(stream, cursor + 1)

\* Iterator::next
next ==
  /\ ret.kind # "Panic"
  /\ IF eof
     THEN /\ ret' = None
          /\ UNCHANGED <<stream, eof, cursor, spans, last_open_paren_idx,
                         in_template, in_replacement, items>>
     ELSE \E pair \in {recognize} :
            IF ~pair.ok THEN panic(121)
            ELSE IF matches_punct(pair.tok, <<"/">>) /\ is_regex_start_panics
            THEN panic(242)
            ELSE IF matches_punct(pair.tok, <<"/">>) /\ is_regex_start
            THEN regex_arm(pair.next)
            ELSE IF in_replacement /\ matches_punct(pair.tok, <<"}">>)
            THEN template_arm(pair.next)
            ELSE token_arm(pair.tok, pair.next)

Next == next

Spec == Init /\ [][Next]_vars

\* ------------------------------------------------------------------------
\* Properties
\* ------------------------------------------------------------------------
Last(q) == q[Len(q)]
SpanText(span) == SubSeq(stream, span[1] + 1, span[2])
EoFItems == {i \in 1..Len(items) : is_eof(items[i].token)}
Stopped == ret.kind \in {"None", "Panic"}

\* C1: once next() has yielded the EoF item, every later call of next()
\* returns None
C1_NoneAfterEoF == [][EoFItems # {} => ret'.kind = "None"]_vars

C1_Witness == EoFItems # {} /\ ret.kind = "None"

\* C2: the items next() yields are finitely many and end in exactly one EoF
\* item or in an error item: EoF is yielded at most once, and when the calls
\* stop (None is returned, or the call does not return) the last item yielded
\* is EoF or an error
C2_EndsInEoFOrError ==
  /\ Cardinality(EoFItems) <= 1
  /\ Stopped => items # <<>> /\ Last(items).token.type \in {"EoF", "Error"}

\* C3: every yielded span has 0 <= start <= end <= len(source), and each span
\* starts at or after the end of the span yielded before it
C3_SpansOrdered ==
  /\ \A i \in 1..Len(items) :
       /\ 0 <= items[i].span[1]
       /\ items[i].span[1] <= items[i].span[2]
       /\ items[i].span[2] <= Len(stream)
  /\ \A i \in 1..(Len(items) - 1) : items[i].span[2] <= items[i + 1].span[1]

C3_Witness ==
  /\ Len(items) >= 3
  /\ \E i \in 1..(Len(items) - 1) :
       /\ items[i].span[2] < items[i + 1].span[1]
       /\ items[i].span[1] + 1 < items[i].span[2]

\* C4: when the text has been scanned to EoF, every offset that lies in no
\* yielded span holds a whitespace character
Covered(p) == \E i \in 1..Len(items) : items[i].span[1] <= p /\ p < items[i].span[2]

C5_ReplacementInTemplate == in_replacement => in_template

C5_Witness ==
  /\ in_replacement
  /\ \E i \in 1..Len(items) : items[i].token.type = "TemplateMiddle"

\* C6: last_open_paren_idx is 0 while no "(" has been emitted, and otherwise
\* the index of the span of the most recently emitted "(", whose text is "("
OpenParenItems == {i \in 1..Len(items) : matches_punct(items[i].token, <<"(">>)}

C6_LastOpenParen ==
  IF OpenParenItems = {} THEN last_open_paren_idx = 0
  ELSE /\ last_open_paren_idx + 1 = Max(OpenParenItems)
       /\ last_open_paren_idx + 1 \in 1..Len(spans)
       /\ SpanText(spans[last_open_paren_idx + 1]) = <<"(">>

C6_Witness ==
  /\ Cardinality(OpenParenItems) >= 2
  /\ Max(OpenParenItems) < Len(items)
  /\ Max(OpenParenItems) > 1

\* the template literals of the tests of lib.rs and of SimpleTemplates: their
\* substitution expressions hold no brace and no back-tick
TemplateTexts == SimpleTemplates \cup {template_one_sub, template_two_subs}
Subs(s) == {i \in 1..(Len(s) - 1) : s[i] = "$" /\ s[i + 1] = "{"}
ItemsOf(type) == {i \in 1..Len(items) : items[i].token.type = type}
TemplateTypes == {"TemplateNoSub", "TemplateHead", "TemplateMiddle", "TemplateTail"}
Has(c, q) == \E k \in 1..Len(q) : q[k] = c

\* C7: on a template literal with k >= 1 substitutions whose expressions hold
\* no brace and no back-tick the scan does not fail, the first item is the
\* Head, every item that is not a template part is a token of an expression
\* (its text holds no "}" and no back-tick), the flags (in_template,
\* in_replacement) are (TRUE, TRUE) from the Head until the Tail is emitted and
\* (FALSE, FALSE) after it, and at EoF there are k - 1 Middles and one Tail,
\* the Tail right before EoF
C7_TemplateParts ==
  stream \in TemplateTexts =>
    /\ ret.kind # "Panic"
    /\ items # <<>> => is_template_head(items[1].token)
    /\ \A i \in 1..Len(items) :
         items[i].token.type \notin TemplateTypes =>
           ~Has("}", SpanText(items[i].span)) /\ ~Has("BT", SpanText(items[i].span))
    /\ IF items = <<>> \/ ItemsOf("TemplateTail") # {}
       THEN ~in_template /\ ~in_replacement
       ELSE in_template /\ in_replacement
    /\ eof => /\ ItemsOf("TemplateTail") = {Len(items) - 1}
              /\ Cardinality(ItemsOf("TemplateMiddle")) = Cardinality(Subs(stream)) - 1

\* token() reads a division punctuator at the cursor and the item emitted
\* last is the punctuator p
SlashAfter(p) ==
  /\ ~eof
  /\ ret.kind # "Panic"
  /\ recognize.ok
  /\ matches_punct(recognize.tok, <<"/">>)
  /\ items # <<>>
  /\ matches_punct(Last(items).token, p)

\* the call of next() took the '/' for the start of a regex: it returned a
\* RegEx item, or failed in the re-scan of lines 72-83
RegexChosen == (ret.kind = "Some" /\ ret.tok.type = "RegEx") \/ ret = Panic(82)
DivisionChosen == ret.kind = "Some" /\ matches_punct(ret.tok, <<"/">>)

\* the index of the item open that matches the item close met at index i,
\* read backwards with depth closers still to match; 0 when there is none
RECURSIVE MatchingOpen(_, _, _, _)
MatchingOpen(open, close, i, depth) ==
  IF i = 0 THEN 0
  ELSE IF matches_punct(items[i].token, close)
  THEN MatchingOpen(open, close, i - 1, depth + 1)
  ELSE IF matches_punct(items[i].token, open)
  THEN IF depth = 1 THEN i ELSE MatchingOpen(open, close, i - 1, depth - 1)
  ELSE MatchingOpen(open, close, i - 1, depth)

ConditionalKeywords == {<<"i","f">>, <<"f","o","r">>, <<"w","h","i","l","e">>, <<"w","i","t","h">>}

\* C8: when '/' is read and the item emitted last is ")", and the "(" that
\* matches it has a token before it, next() lexes a regex if and only if that
\* token is one of the keywords if, for, while, with
C8_RegexAfterConditional ==
  [][(SlashAfter(<<")">>) /\ MatchingOpen(<<"(">>, <<")">>, Len(items), 0) > 1)
       => (RegexChosen' <=>
             \E k \in ConditionalKeywords :
               matches_keyword(
                 items[MatchingOpen(<<"(">>, <<")">>, Len(items), 0) - 1].token, k))]_vars

\* C9: when '/' is read and the item emitted last is "}", next() lexes a regex
\* if and only if check_for_func says so (the token before the "(" at
\* last_open_paren_idx an identifier: the token three before it is in
\* expression context; the keyword function: the token two before it is;
\* anything else: a regex), so that "{}/\d/g;;" gives a RegEx after "}"
C9_RegexAfterCloseBrace ==
  [][SlashAfter(<<"}">>) => (RegexChosen' <=> check_for_func)]_vars

\* the "}" emitted last closes a "{" that stands directly after a "("
ObjectLiteralAfterParen ==
  /\ MatchingOpen(<<"{">>, <<"}">>, Len(items), 0) > 1
  /\ matches_punct(items[MatchingOpen(<<"{">>, <<"}">>, Len(items), 0) - 1].token, <<"(">>)

SlashRead ==
  /\ ~eof
  /\ ret.kind # "Panic"
  /\ recognize.ok
  /\ matches_punct(recognize.tok, <<"/">>)

\* C11: when '/' is read while the span history is empty (the text begins
\* with '/'), next() lexes a regex literal from that '/', not Punct('/')
C11_RegexAtStart == [][(SlashRead /\ spans = <<>>) => RegexChosen']_vars

LiteralTypes == {"Ident", "Numeric", "String", "Boolean", "Null", "RegEx"} \cup TemplateTypes

\* C12: when '/' is read and the token emitted last is an identifier, a
\* literal (number, string, boolean, null, template part, regex literal) or
\* the keyword this, next() emits Punct('/'); when it is another keyword or a
\* punctuator other than ")" and "}", next() lexes a regex literal
C12_DecisionByLastToken ==
  [][(SlashRead /\ items # <<>>) =>
       /\ (\/ Last(items).token.type \in LiteralTypes
           \/ matches_keyword(Last(items).token, <<"t","h","i","s">>)) => DivisionChosen'
       /\ (\/ (is_keyword(Last(items).token)
               /\ ~matches_keyword(Last(items).token, <<"t","h","i","s">>))
           \/ (is_punct(Last(items).token)
               /\ Last(items).token.val \notin {<<")">>, <<"}">>})) => RegexChosen']_vars

\* the token the scanner reads back from the span of item k
Relexed(k) == token_for(items[k].span)
NonComments == {i \in 1..Len(items) : items[i].token.type # "Comment"}

\* C13: when '/' is read and the items emitted last are comments after a
\* token t, next() lexes a regex if and only if is_regex_start answers so
\* for t as the last token: the comments in between do not change the
\* decision
C13_CommentsIgnored ==
  [][(/\ SlashRead
      /\ items # <<>>
      /\ Last(items).token.type = "Comment"
      /\ NonComments # {}
      /\ ~(matches_punct(Relexed(Max(NonComments)), <<")">>)
           /\ nth_before_last_open_paren_panics(1)))
       => (RegexChosen' <=> is_regex_start_after(Relexed(Max(NonComments))))]_vars

\* the braces the expression of the current substitution has opened and not
\* closed: the "{" less the "}" among the items after the last template part
PartItems == {i \in 1..Len(items) : items[i].token.type \in TemplateTypes}
PunctsAfter(p, k) == {i \in (k + 1)..Len(items) : matches_punct(items[i].token, p)}
OpenBraces ==
  Cardinality(PunctsAfter(<<"{">>, Max(PartItems)))
    - Cardinality(PunctsAfter(<<"}">>, Max(PartItems)))

\* C14: in replacement mode a "}" that closes a "{" opened inside the
\* substitution expression is emitted as Punct("}") and changes neither
\* in_template nor in_replacement
C14_InnerBraceIsPunct ==
  [][(/\ ~eof
      /\ ret.kind # "Panic"
      /\ in_replacement
      /\ recognize.ok
      /\ matches_punct(recognize.tok, <<"}">>)
      /\ PartItems # {}
      /\ OpenBraces > 0)
       => /\ ret'.kind = "Some"
          /\ matches_punct(ret'.tok, <<"}">>)
          /\ in_template' = in_template
          /\ in_replacement' = in_replacement]_vars

\* the template literals open: the Heads less the Tails emitted
TemplateDepth ==
  Cardinality(ItemsOf("TemplateHead")) - Cardinality(ItemsOf("TemplateTail"))

\* C15: when the Tail of a template literal opened inside a substitution of
\* an outer template is emitted, the scanner is still in replacement mode
\* (both flags set) for the outer template, and a text with a template
\* literal nested in a substitution scans without failure, the calls ending
\* with the EoF item
C15_NestedTemplates ==
  [][/\ (/\ Len(items') = Len(items) + 1
         /\ is_template_tail(Last(items').token)
         /\ TemplateDepth >= 2) => (in_template' /\ in_replacement')
     /\ stream \in Substituted(TemplateExprs) =>
          /\ ret'.kind # "Panic"
          /\ ret'.kind = "None" => is_eof(Last(items).token)]_vars

\* C16: when no recognizer accepts the text at the cursor and the cursor is
\* not at the end of the text, next() returns an item that is an error
\* carrying the offset of the cursor
C16_ErrorItem ==
  [][(~eof /\ ret.kind # "Panic" /\ ~recognize.ok /\ cursor < Len(stream))
       => /\ ret'.kind = "Some"
          /\ ret'.tok.type = "Error"
          /\ ret'.span[1] = cursor]_vars

\* C17: for every item but EoF, the token read back from the text of its
\* span (token_for) is the token that was emitted
C17_RelexGivesToken ==
  \A i \in 1..Len(items) : ~is_eof(items[i].token) => Relexed(i) = items[i].token

\* the tokens yielded so far
Tokens == [i \in 1..Len(items) |-> items[i].token]
let_tokens ==
  << Tok("Keyword", <<"l","e","t">>), Tok("Ident", <<"x">>), Tok("Punct", <<"=">>),
     Tok("Numeric", <<"0">>), Tok("Punct", <<";">>), Tok("EoF", <<>>) >>

\* s with the character w put in at offset b
Insert(s, b, w) == SubSeq(s, 1, b) \o <<w>> \o SubSeq(s, b + 1, Len(s))

\* item i is the token that token() reads at its start, and no comment
ReadByToken(i) ==
  /\ items[i].token.type \notin {"EoF", "Comment"}
  /\ token(stream, items[i].span[1] + 1).ok
  /\ token(stream, items[i].span[1] + 1).tok = items[i].token

\* C18: whitespace between two adjacent tokens does not change the tokens:
\* "let x=0;", "let x = 0 ;" and the same with tabs and a newline all yield
\* Keyword(let), Ident(x), Punct(=), Number(0), Punct(;), and a whitespace
\* character put in right after a token leaves that token as it was
C18_WhitespaceNeutral ==
  /\ (eof /\ stream \in WhitespaceTexts) => Tokens = let_tokens
  /\ \A i \in 1..Len(items) : \A w \in {" ", "\t", "\n"} :
       ReadByToken(i) =>
         token(Insert(stream, items[i].span[2], w), items[i].span[1] + 1).tok
           = items[i].token

Elements(ws) == {ws[k] : k \in 1..Len(ws)}
KeywordTexts ==
  Elements(reserved_words) \cup Elements(future_reserved_words)
    \cup Elements(strict_mode_reserved_words) \cup Elements(restricted_words)

\* C19: no emitted Ident has a text that is an enumerated keyword or true,
\* false or null
C19_IdentNotKeyword ==
  \A i \in 1..Len(items) :
    is_ident(items[i].token) =>
      items[i].token.val \notin
        KeywordTexts \cup {<<"t","r","u","e">>, <<"f","a","l","s","e">>, <<"n","u","l","l">>}

\* C20: a Keyword, Boolean or Null item is never followed at once by an
\* identifier-part character: a word that only begins with a keyword is one
\* Ident
C20_KeywordNotPrefix ==
  \A i \in 1..Len(items) :
    items[i].token.type \in {"Keyword", "Boolean", "Null"} =>
      \/ items[i].span[2] = Len(stream)
      \/ stream[items[i].span[2] + 1] \notin ident_part

\* C21: no Numeric token begins with a sign: the "-" or "+" before a numeric
\* literal is a Punct of its own and the Numeric after it is the literal
C21_SignIsPunct ==
  \A i \in 1..Len(items) :
    items[i].token.type = "Numeric" =>
      /\ items[i].token.val[1] \notin {"-", "+"}
      /\ stream[items[i].span[1] + 1] \notin {"-", "+"}

\* the end of the decimal literal of the grammar read at i: digits, then "."
\* and digits, then an exponent of e or E, a sign or none, and digits; a part
\* that is not complete is not taken
DecimalEnd(s, i) ==
  LET a == SkipIn(s, i, digit)
      b == IF a <= Len(s) /\ s[a] = "." THEN SkipIn(s, a + 1, digit) ELSE a
      g == IF b + 1 <= Len(s) /\ s[b + 1] \in {"-", "+"} THEN b + 2 ELSE b + 1
  IN IF b <= Len(s) /\ s[b] \in {"e", "E"} /\ SkipIn(s, g, digit) > g
     THEN SkipIn(s, g, digit) ELSE b

member_tokens ==
  << Tok("Numeric", <<"2","0",".">>), Tok("Punct", <<".">>),
     Tok("Ident", <<"t","o","S","t","r","i","n","g">>), Tok("Punct", <<"(">>),
     Tok("Punct", <<")">>), Tok("EoF", <<>>) >>

\* C22: a text that begins with a digit yields first the Numeric that is the
\* longest prefix of the form digits, optional "." and digits, optional
\* exponent (e or E, optional sign, digits); "20..toString()" yields
\* Numeric(20.), Punct(.), Ident(toString), Punct((), Punct())
C22_FullDecimal ==
  /\ (stream \in DecimalTexts /\ ret.kind # "NotCalled") =>
       /\ items # <<>>
       /\ items[1].token = Tok("Numeric", SubSeq(stream, 1, DecimalEnd(stream, 1) - 1))
       /\ items[1].span = <<0, DecimalEnd(stream, 1) - 1>>
  /\ (stream = number_member /\ eof) => Tokens = member_tokens

\* the enumerated punctuators and the longest of them that the text at i
\* begins with
AllPuncts ==
  Elements(multi_punct_words) \cup {<<c>> : c \in normal_punct_chars \cup {"/"}}
PunctsAt(s, i) == {p \in AllPuncts : string(p, s, i) # 0}
LongestPunctAt(s, i) ==
  CHOOSE p \in PunctsAt(s, i) : \A q \in PunctsAt(s, i) : Len(q) <= Len(p)

\* C23: every Punct emitted is the longest enumerated punctuator that the
\* text at its start begins with, and a text that is one enumerated
\* punctuator yields that Punct over the whole text
C23_LongestPunct ==
  /\ \A i \in 1..Len(items) :
       is_punct(items[i].token) =>
         /\ PunctsAt(stream, items[i].span[1] + 1) # {}
         /\ items[i].token.val = LongestPunctAt(stream, items[i].span[1] + 1)
         /\ items[i].span[2] = items[i].span[1] + Len(items[i].token.val)
  /\ (stream \in AllPuncts /\ ret.kind # "NotCalled") =>
       /\ items # <<>>
       /\ items[1] = [token |-> Tok("Punct", stream), span |-> <<0, Len(stream)>>]

C23_Witness ==
  /\ stream = <<">",">",">","=","=">>
  /\ Len(items) >= 2
  /\ items[1].token = Tok("Punct", <<">",">",">","=">>)
  /\ items[2].token = Tok("Punct", <<"=">>)

\* C24: the characters skipped between the items are whitespace of
\* ECMAScript and no others, and each whitespace character of ECMAScript
\* between two numbers or before a number is skipped: the numbers are
\* yielded, then EoF
C24_WhitespaceSet ==
  /\ eof => \A p \in 0..(Len(stream) - 1) :
              ~Covered(p) => stream[p + 1] \in ecma_whitespace
  /\ \A w \in ecma_whitespace :
       /\ (stream = <<"1", w, "2">> /\ Stopped) =>
            Tokens = <<Tok("Numeric", <<"1">>), Tok("Numeric", <<"2">>), Tok("EoF", <<>>)>>
       /\ (stream = <<w, "1">> /\ Stopped) =>
            Tokens = <<Tok("Numeric", <<"1">>), Tok("EoF", <<>>)>>

\* C25: when '/' is read after a ")" and is_regex_start looks up the token
\* before the last "(", the index last_open_paren_idx - 1 is not below 0 and
\* the call does not fail on the index
C25_IndexInRange ==
  [][(SlashRead /\ matches_punct(last_token, <<")">>))
       => /\ last_open_paren_idx - 1 >= 0
          /\ ret' # Panic(242)]_vars

\* C26: in_template and in_replacement are equal in every state, so the
\* template recognizer is never the one called at the cursor, and every
\* Middle and Tail begins at the "}" that was read as a Punct
C26_FlagsEqual ==
  /\ in_template = in_replacement
  /\ recognize = token(stream, cursor + 1)
  /\ \A i \in 1..Len(items) :
       items[i].token.type \in {"TemplateMiddle", "TemplateTail"} =>
         stream[items[i].span[1] + 1] = "}"

C26_Witness ==
  /\ ~in_template
  /\ ~in_replacement
  /\ ItemsOf("TemplateHead") # {}
  /\ ItemsOf("TemplateMiddle") # {}
  /\ ItemsOf("TemplateTail") # {}

\* C27: the body of every String token is the text between its quotes,
\* character for character
C27_StringBodyExact ==
  \A i \in 1..Len(items) :
    items[i].token.type = "String" =>
      items[i].token.val = SubSeq(stream, items[i].span[1] + 2, items[i].span[2] - 1)

\* the index of the "/" that ends the regex body read at i: the first one
\* that no backslash escapes and that is in no class, 0 when there is none
RECURSIVE BodyEnd(_, _, _)
BodyEnd(s, i, in_class) ==
  IF i > Len(s) THEN 0
  ELSE IF s[i] = "\\" THEN BodyEnd(s, i + 2, in_class)
  ELSE IF in_class THEN BodyEnd(s, i + 1, s[i] # "]")
  ELSE IF s[i] = "[" THEN BodyEnd(s, i + 1, TRUE)
  ELSE IF s[i] = "/" THEN i
  ELSE BodyEnd(s, i + 1, FALSE)

\* C28: every RegEx token has as its body the text from after its opening
\* "/" to the first "/" that is neither escaped nor in a class, as its flags
\* the identifier-part characters after that "/" (none when there are
\* none), and a span from the opening "/" through the last flag
C28_RegexBodyAndSpan ==
  \A i \in 1..Len(items) :
    items[i].token.type = "RegEx" =>
      \E open \in {items[i].span[1] + 1} :
        \E close \in {BodyEnd(stream, open + 1, FALSE)} :
          /\ stream[open] = "/"
          /\ close # 0
          /\ items[i].token.val = SubSeq(stream, open + 1, close - 1)
          /\ items[i].token.flags =
               (IF SkipIn(stream, close + 1, ident_part) = close + 1 THEN <<>>
                ELSE <<SubSeq(stream, close + 1, SkipIn(stream, close + 1, ident_part) - 1)>>)
          /\ items[i].span[2] = SkipIn(stream, close + 1, ident_part) - 1

\* tokens of every kind: each punctuator, each keyword, and others
SomeTokens ==
  {Tok("Punct", p) : p \in AllPuncts} \cup {Tok("Keyword", k) : k \in KeywordTexts}
    \cup {Tok("Ident", <<"x">>), Tok("Numeric", <<"1">>), Tok("String", <<"a">>),
          Tok("Boolean", <<"t","r","u","e">>), Tok("Null", <<>>), Tok("EoF", <<>>),
          Tok("Comment", <<"c">>), Tok("TemplateHead", <<>>), NoTok}

\* C29: check_for_expression(t) is true exactly when t is Punct("("), for
\* every token emitted and for a token of every kind
C29_ExpressionIsOpenParen ==
  /\ \A i \in 1..Len(items) :
       check_for_expression(items[i].token) <=> matches_punct(items[i].token, <<"(">>)
  /\ \A t \in SomeTokens : check_for_expression(t) <=> matches_punct(t, <<"(">>)

C29_Witness ==
  /\ \E i \in 1..Len(items) : check_for_expression(items[i].token)
  /\ \E i \in 1..Len(items) :
       /\ items[i].token.type = "Punct"
       /\ items[i].token.val \in expression_puncts
       /\ ~check_for_expression(items[i].token)
  /\ \E i \in 1..Len(items) :
       /\ items[i].token.type = "Keyword"
       /\ items[i].token.val \in expression_keywords

====
